---- MODULE Spec2Model ----
(***************************************************************************)
(* Session orchestrator of the Tello drone video app (src/unnamed/part_000)*)
(* as a state machine.  The React component's state (status, error) and    *)
(* refs (commandSocket, ffmpegSessionId) are the variables; every async    *)
(* function is cut at its awaits on native calls and timers, and each      *)
(* piece between two such awaits is one atomic action (JavaScript runs a   *)
(* callback to completion).  Sockets and FFmpeg sessions are named by the  *)
(* connect attempt that created them.                                      *)
(***************************************************************************)
EXTENDS Naturals, Sequences, FiniteSets, TLC

\* ---- bounds of the model ----
\* connect attempts Spec lets the user begin; SpecRetry lets one more begin
MaxAttempts == 1
\* 'error' events the sockets emit in one behaviour
MaxSocketErrors == 1

\* names of the attempts, and of the socket and the session each creates
Attempts == 1..(MaxAttempts + 1)

\* ---- ConnectionStatus (part_000:28-34) ----
DISCONNECTED == "DISCONNECTED"
CONNECTING == "CONNECTING"
CONNECTED == "CONNECTED"
STREAMING == "STREAMING"
ERROR == "ERROR"
ConnectionStatus == {DISCONNECTED, CONNECTING, CONNECTED, STREAMING, ERROR}

\* a ref holding null
NULL == 0

\* ---- messages: a string is a sequence of pieces, '' is <<>> ----
NoError == <<>>
MsgPermissionDenied == <<"Location permission denied. Cannot scan for WiFi.">>
MsgPermissionThrew == <<"Error requesting location permission.">>
MsgNoConnection == <<"No network connection.">>
MsgNotWifi == <<"Please connect to a WiFi network.">>
\* mutant: the wrong-network message without the detected name
MsgWrongNetworkNoName(ssid) ==
    <<"Please connect to the Tello drone's WiFi network (TELLO-*)">>

\* part_000:141
MsgWrongNetwork(ssid) ==
    <<"Connected to \"">> \o ssid \o
    <<"\". Please connect to the Tello drone's WiFi network (starts with TELLO-).">>
MsgNetThrew(m) == <<"Failed to check network status: ", m>>
MsgSocketNotInit == "Socket not initialized"
MsgBind(m) == "Failed to bind socket to port 9000: " \o m
MsgInitFailed(m) == <<"Failed to initialize drone: ", m>>
MsgSocketError(m) == <<"UDP Socket error: ", m>>
MsgLaunchFailed(m) == <<"Failed to start FFmpeg: ", m>>
MsgFFmpegFailed == <<"FFmpeg processing error. Check logs.">>
MsgVideoError(m) == <<"Video playback error: ", m>>

\* ---- inputs from the environment ----
Platforms == {"android", "ios"}
PermResults == {"granted", "denied", "throws"}
TelloPrefix == <<"T", "E", "L", "L", "O", "-">>
NoSsid == <<>>
Ssids == {NoSsid, TelloPrefix \o <<"A", "1">>, <<"H", "o", "m", "e">>,
          <<"T", "E", "L", "L", "O">>}
NetStates == [isConnected : BOOLEAN, type : {"wifi", "cellular"},
              ssid : Ssids, throws : BOOLEAN]
ErrText == {"EIO"}
Outcomes == {"success", "cancel", "failed"}

\* part_000:221, 224: the handshake commands
Commands == {"command", "streamon"}

VARIABLES
    status,            \* useState status (part_000:37)
    error,             \* useState error (part_000:38)
    commandSocket,     \* useRef commandSocket.current (part_000:39)
    ffmpegSessionId,   \* useRef ffmpegSessionId.current (part_000:40)
    mounted,           \* the component is mounted
    platform,          \* Platform.OS
    started,           \* number of connect attempts begun
    pc,                \* where each connect attempt is suspended
    sockState,         \* per socket: "none" | "open" | "closed", or "reclosed"
                       \* once close() has been called on it a second time
    sockErrors,        \* number of 'error' events sockets have emitted
    sessState,         \* per FFmpeg session: "none"|"running"|"cb_rc"|"cb_logs"|"ended"
    sessOutcome,       \* per session: the terminal outcome delivered, or "none"
    cancelReq,         \* sessions FFmpegKit.cancel was called on
    cleanupPending,    \* cleanup() calls suspended at await FFmpegKit.cancel
    tornAttempts,      \* history: attempts suspended when the user tore down
                       \* and suspended still
    tornSessions,      \* history: sessions running when the user tore down
                       \* whose completion callback has not finished
    sent,              \* per attempt: the commands it handed to socket.send, in order
    trail              \* history: "happy" while only happy-path events have happened,
                       \* else what the last step was (see Note)

vars == <<status, error, commandSocket, ffmpegSessionId, mounted, platform,
          started, pc, sockState, sockErrors, sessState, sessOutcome,
          cancelReq, cleanupPending, tornAttempts, tornSessions, sent, trail>>

\* the orchestrator's fields as one value, threaded through a handler's statements
\* part_000:53, 65: how the two native calls of a cleanup end: whether
\* FFmpegKit.cancel resolves (or rejects), whether socket.close() returns (or
\* throws)
Natives == [cancelOk : BOOLEAN, closeOk : BOOLEAN]
Returns == [cancelOk |-> TRUE, closeOk |-> TRUE]

\* the refs and state a handler reads, with the outcomes n of the native calls
\* it may make
CurWith(n) ==
    [status |-> status, error |-> error, commandSocket |-> commandSocket,
     ffmpegSessionId |-> ffmpegSessionId, sockState |-> sockState,
     cancelReq |-> cancelReq, cleanupPending |-> cleanupPending,
     cancelOk |-> n.cancelOk, closeOk |-> n.closeOk]

Cur == CurWith(Returns)

\* a handler that can reach socket.close() but not FFmpegKit.cancel's return
Closing(ok) == CurWith([cancelOk |-> TRUE, closeOk |-> ok])

\* part_000:50, 62: a cleanup that begins now calls close() before it returns
\* only with no session handle and with a socket; one that resumes calls it
\* only with a socket
CloseOutcomes ==
    IF ffmpegSessionId = NULL /\ commandSocket # NULL THEN BOOLEAN ELSE {TRUE}
ResumeOutcomes == {n \in Natives : n.closeOk \/ commandSocket # NULL}

Commit(o) ==
    /\ status' = o.status
    /\ error' = o.error
    /\ commandSocket' = o.commandSocket
    /\ ffmpegSessionId' = o.ffmpegSessionId
    /\ sockState' = o.sockState
    /\ cancelReq' = o.cancelReq
    /\ cleanupPending' = o.cleanupPending

setStatus(o, v) == [o EXCEPT !.status = v]
setError(o, m) == [o EXCEPT !.error = m]

\* mutant: the socket is closed but the ref keeps naming it
closeSocketKeepsRef(o) ==
    IF o.commandSocket # NULL
    THEN [o EXCEPT !.sockState[o.commandSocket] =
                       IF @ = "closed" THEN "reclosed" ELSE "closed"]
    ELSE o

\* mutant: no finally around close(): when it throws the ref is left as it was
closeSocketThrowKeepsRef(o) ==
    IF o.commandSocket # NULL
    THEN IF o.closeOk
         THEN [o EXCEPT !.sockState[o.commandSocket] =
                            IF @ = "closed" THEN "reclosed" ELSE "closed",
                        !.commandSocket = NULL]
         ELSE [o EXCEPT !.sockState[o.commandSocket] =
                            IF @ = "closed" THEN "reclosed" ELSE "closed"]
    ELSE o

\* part_000:61-71: close the socket commandSocket names, null the ref.  The
\* socket is closed once close() was called on it; whether the call returns
\* or throws (o.closeOk), the catch only logs and the finally nulls the ref.
closeSocket(o) ==
    IF o.commandSocket # NULL
    THEN [o EXCEPT !.sockState[o.commandSocket] =
                       IF @ = "closed" THEN "reclosed" ELSE "closed",
                   !.commandSocket = NULL]
    ELSE o

\* part_000:44-72 up to its first suspension: with a session handle it calls
\* FFmpegKit.cancel and suspends (the rest is CleanupResume), else it runs on
\* to the socket
cleanup(o) ==
    LET o1 == setError(setStatus(o, DISCONNECTED), NoError)
    IN  IF o1.ffmpegSessionId # NULL
        THEN [o1 EXCEPT !.cancelReq = @ \cup {o1.ffmpegSessionId},
                        !.cleanupPending = @ + 1]
        ELSE closeSocket(o1)

\* part_000:52-71: after await FFmpegKit.cancel.  Resolved or rejected
\* (o.cancelOk), the catch only logs, the finally nulls the handle and the
\* function goes on to the socket.
cleanupResume(o) ==
    closeSocket([o EXCEPT !.ffmpegSessionId = NULL, !.cleanupPending = @ - 1])

StartsWith(s, p) == Len(s) >= Len(p) /\ SubSeq(s, 1, Len(p)) = p

\* mutant: a preflight that does not look at the connected flag
checkNetworkNoLinkTest(os, st) ==
    IF st.throws THEN <<FALSE, MsgNetThrew("fetch failed")>>
    ELSE IF st.type # "wifi" THEN <<FALSE, MsgNotWifi>>
    ELSE IF os = "android" /\ st.ssid # NoSsid /\ ~StartsWith(st.ssid, TelloPrefix)
         THEN <<FALSE, MsgWrongNetwork(st.ssid)>>
    ELSE <<TRUE, NoError>>

\* mutant: the link type is examined before the connected flag
checkNetworkTypeFirst(os, st) ==
    IF st.throws THEN <<FALSE, MsgNetThrew("fetch failed")>>
    ELSE IF st.type # "wifi" THEN <<FALSE, MsgNotWifi>>
    ELSE IF ~st.isConnected THEN <<FALSE, MsgNoConnection>>
    ELSE IF os = "android" /\ st.ssid # NoSsid /\ ~StartsWith(st.ssid, TelloPrefix)
         THEN <<FALSE, MsgWrongNetwork(st.ssid)>>
    ELSE <<TRUE, NoError>>

\* part_000:117-160 after NetInfo.fetch(): <<passed, error message>>
checkNetwork(os, st) ==
    IF st.throws THEN <<FALSE, MsgNetThrew("fetch failed")>>
    ELSE IF ~st.isConnected THEN <<FALSE, MsgNoConnection>>
    ELSE IF st.type # "wifi" THEN <<FALSE, MsgNotWifi>>
    ELSE IF os = "android" /\ st.ssid # NoSsid /\ ~StartsWith(st.ssid, TelloPrefix)
         THEN <<FALSE, MsgWrongNetwork(st.ssid)>>
    ELSE <<TRUE, NoError>>

Suspended == {"perm", "net", "bind", "send1", "delay1", "send2", "delay2",
              "launch", "exec"}

TypeOK ==
    /\ status \in ConnectionStatus
    /\ error \in Seq(STRING)
    /\ commandSocket \in Attempts \cup {NULL}
    /\ ffmpegSessionId \in Attempts \cup {NULL}
    /\ mounted \in BOOLEAN
    /\ platform \in Platforms
    /\ started \in 0..(MaxAttempts + 1)
    /\ pc \in [Attempts -> Suspended \cup {"idle", "done", "failed"}]
    /\ sockState \in [Attempts -> {"none", "open", "closed", "reclosed"}]
    /\ sockErrors \in 0..MaxSocketErrors
    /\ sessState \in [Attempts -> {"none", "running", "cb_rc", "cb_logs", "ended"}]
    /\ sessOutcome \in [Attempts -> Outcomes \cup {"none"}]
    /\ cancelReq \subseteq Attempts
    /\ cleanupPending \in Nat
    /\ tornAttempts \subseteq Attempts
    /\ tornSessions \subseteq Attempts
    /\ sent \in [Attempts -> Seq(Commands)]
    /\ trail \in STRING

Init ==
    /\ status = DISCONNECTED
    /\ error = NoError
    /\ commandSocket = NULL
    /\ ffmpegSessionId = NULL
    /\ mounted = TRUE
    /\ platform \in Platforms
    /\ started = 0
    /\ pc = [a \in Attempts |-> "idle"]
    /\ sockState = [a \in Attempts |-> "none"]
    /\ sockErrors = 0
    /\ sessState = [a \in Attempts |-> "none"]
    /\ sessOutcome = [a \in Attempts |-> "none"]
    /\ cancelReq = {}
    /\ cleanupPending = 0
    /\ tornAttempts = {}
    /\ tornSessions = {}
    /\ sent = [a \in Attempts |-> <<>>]
    /\ trail = "happy"


\* ---- pieces of the handlers, as functions of the orchestrator's fields ----

\* part_000:117-120: checkNetwork up to await NetInfo.fetch()
checkNetworkStart(o) == setError(o, NoError)

\* part_000:184-218: initializeDrone up to the await of bind; attempt a's
\* socket is stored into commandSocket whatever the ref held
initializeDroneStart(o, a) ==
    LET o1 == setError(setStatus(o, CONNECTING), NoError)
    IN  [o1 EXCEPT !.commandSocket = a, !.sockState[a] = "open"]

\* part_000:233-239: catch of initializeDrone
initializeDroneCatch(o, m) ==
    cleanup(setStatus(setError(o, MsgInitFailed(m)), ERROR))

\* part_000:297-302: catch of startFFmpeg
startFFmpegCatch(o, m) ==
    cleanup(setStatus(setError(o, MsgLaunchFailed(m)), ERROR))

\* part_000:194-200: the socket's 'error' handler
onSocketError(o, m) ==
    cleanup(setStatus(setError(o, MsgSocketError(m)), ERROR))

\* mutant: the handshake's end announces streaming, skipping Connected
afterHandshakeStreaming(o) == setStatus(o, STREAMING)

\* part_000:227-231: after the second settling delay
afterHandshake(o) == setStatus(o, CONNECTED)

\* mutant: the launch itself announces streaming (the guess the source removed)
storeSessionIdStreaming(o, s) ==
    setStatus([o EXCEPT !.ffmpegSessionId = s], STREAMING)

\* part_000:290-295: the launch was accepted; status is left alone
storeSessionId(o, s) == [o EXCEPT !.ffmpegSessionId = s]

\* part_000:281-284: the completion callback clears the handle if it names s
clearSessionId(o, s) ==
    IF o.ffmpegSessionId = s THEN [o EXCEPT !.ffmpegSessionId = NULL] ELSE o

\* part_000:273-284: failed branch of the completion callback
onFFmpegFailed(o, s) ==
    clearSessionId(setStatus(setError(o, MsgFFmpegFailed), ERROR), s)

\* part_000:333-339
onVideoLoad(o) ==
    IF o.status # STREAMING
    THEN setError(setStatus(o, STREAMING), NoError)
    ELSE o

\* mutant: a player error treated as a failure of the connection
onVideoErrorFails(o, m) == setStatus(setError(o, MsgVideoError(m)), ERROR)

\* part_000:341-348
onVideoError(o, m) == setStatus(setError(o, MsgVideoError(m)), CONNECTED)

\* part_000:351-373: renderContent mounts the Video player in these statuses
VideoMounted == status \in {STREAMING, CONNECTED, CONNECTING}

\* part_000:425: the Disconnect button is rendered in these statuses
DisconnectShown == status \in {CONNECTED, STREAMING, CONNECTING}

\* part_000:308, 395
ConnectBlocked == status \in {CONNECTING, CONNECTED, STREAMING}

\* ---- actions ----

\* the torn attempts and sessions are remembered while they can still act
KeepTorn ==
    /\ tornAttempts' = {a \in tornAttempts : pc'[a] \in Suspended}
    /\ tornSessions' = {s \in tornSessions : sessState'[s] # "ended"}

\* the history variable: h says the step is a happy-path event (the user's
\* first connect press, a native call that succeeds, a timer, the player's
\* ready signal), l names the step once the run has left the happy path:
\* "videoErrorWhileStreaming" after a player error received in Streaming,
\* "teardown" after a disconnect or unmount whose cleanup is suspended at the
\* cancel, "torndown" once the cleanup of a disconnect or unmount has run to
\* its end with no step in between, "tornTwice" when right after that a
\* second cleanup that was suspended beside it has run to its end too,
\* "bothFailed" after a resumed cleanup whose cancel was rejected and whose
\* close() threw, "other" after any other step
Note(h, l) ==
    trail' = IF trail = "happy" /\ h THEN "happy" ELSE l

\* mutant: once an attempt has passed both gates their result is kept, and a
\* later attempt goes straight to the socket
HandleConnectPressCached(limit) ==
    /\ mounted
    /\ started < limit
    /\ ~ConnectBlocked
    /\ LET a == started + 1
           o1 == setStatus(setError(Cur, NoError), CONNECTING)
       IN  /\ started' = a
           /\ IF started > 0 /\ sockState[started] # "none"
              THEN /\ pc' = [pc EXCEPT ![a] = "bind"]
                   /\ Commit(initializeDroneStart(o1, a))
              ELSE IF platform = "android"
              THEN /\ pc' = [pc EXCEPT ![a] = "perm"]
                   /\ Commit(o1)
              ELSE /\ pc' = [pc EXCEPT ![a] = "net"]
                   /\ Commit(checkNetworkStart(o1))
    /\ UNCHANGED <<mounted, platform, sockErrors, sessState, sessOutcome>>
    /\ Note(started = 0, "other")
    /\ sent' = sent
    /\ KeepTorn

\* part_000:306-319: button handler up to its first await on a native call;
\* limit is the number of attempts the behaviour may begin
HandleConnectPress(limit) ==
    /\ mounted
    /\ started < limit
    /\ ~ConnectBlocked
    /\ LET a == started + 1
           o1 == setStatus(setError(Cur, NoError), CONNECTING)
       IN  /\ started' = a
           /\ IF platform = "android"
              THEN /\ pc' = [pc EXCEPT ![a] = "perm"]
                   /\ Commit(o1)
              ELSE /\ pc' = [pc EXCEPT ![a] = "net"]
                   /\ Commit(checkNetworkStart(o1))
    /\ UNCHANGED <<mounted, platform, sockErrors, sessState, sessOutcome>>
    /\ Note(started = 0, "other")
    /\ sent' = sent
    /\ KeepTorn

\* mutant: handleConnectPress goes on whatever checkPermissions returned
PermResultIgnored(a, r) ==
    /\ pc[a] = "perm"
    /\ pc' = [pc EXCEPT ![a] = "net"]
    /\ Commit(checkNetworkStart(Cur))
    /\ UNCHANGED <<mounted, platform, started, sockErrors, sessState,
                   sessOutcome>>
    /\ Note(r = "granted", "other")
    /\ sent' = sent
    /\ KeepTorn

\* mutant: a refused permission ends the attempt without a word
PermResultSilentDeny(a, r) ==
    /\ pc[a] = "perm"
    /\ IF r = "granted"
       THEN /\ pc' = [pc EXCEPT ![a] = "net"]
            /\ Commit(checkNetworkStart(Cur))
       ELSE /\ pc' = [pc EXCEPT ![a] = "failed"]
            /\ Commit(Cur)
    /\ UNCHANGED <<mounted, platform, started, sockErrors, sessState,
                   sessOutcome>>
    /\ Note(r = "granted", "other")
    /\ sent' = sent
    /\ KeepTorn

\* part_000:89-110, 316-319: PermissionsAndroid.request settled
PermResult(a, r) ==
    /\ pc[a] = "perm"
    /\ IF r = "granted"
       THEN /\ pc' = [pc EXCEPT ![a] = "net"]
            /\ Commit(checkNetworkStart(Cur))
       ELSE /\ pc' = [pc EXCEPT ![a] = "failed"]
            /\ Commit(setStatus(setError(Cur,
                   IF r = "denied" THEN MsgPermissionDenied
                   ELSE MsgPermissionThrew), ERROR))
    /\ UNCHANGED <<mounted, platform, started, sockErrors, sessState,
                   sessOutcome>>
    /\ Note(r = "granted", "other")
    /\ sent' = sent
    /\ KeepTorn

\* part_000:120-160, 319-323: NetInfo.fetch settled
NetResult(a, st) ==
    /\ pc[a] = "net"
    /\ LET r == checkNetwork(platform, st)
       IN  IF r[1]
           THEN /\ pc' = [pc EXCEPT ![a] = "bind"]
                /\ Commit(initializeDroneStart(Cur, a))
           ELSE /\ pc' = [pc EXCEPT ![a] = "failed"]
                /\ Commit(setStatus(setError(Cur, r[2]), ERROR))
    /\ UNCHANGED <<mounted, platform, started, sockErrors, sessState,
                   sessOutcome>>
    /\ Note(checkNetwork(platform, st)[1], "other")
    /\ sent' = sent
    /\ KeepTorn

\* part_000:163-181: sendCommand rejects at once without a socket
SendOrCatch(a, cmd, next) ==
    IF commandSocket = NULL
    THEN /\ pc' = [pc EXCEPT ![a] = "failed"]
         /\ \E ok \in CloseOutcomes :
                Commit(initializeDroneCatch(Closing(ok), MsgSocketNotInit))
         /\ sent' = sent
    ELSE /\ pc' = [pc EXCEPT ![a] = next]
         /\ Commit(Cur)
         /\ sent' = [sent EXCEPT ![a] = Append(@, cmd)]

\* part_000:208-221: the bind callback ran
BindResult(a, err) ==
    /\ pc[a] = "bind"
    /\ IF err = "ok"
       THEN SendOrCatch(a, "command", "send1")
       ELSE /\ pc' = [pc EXCEPT ![a] = "failed"]
            /\ \E ok \in CloseOutcomes :
                   Commit(initializeDroneCatch(Closing(ok), MsgBind(err)))
            /\ sent' = sent
    /\ Note(err = "ok" /\ commandSocket # NULL, "other")
    /\ UNCHANGED <<mounted, platform, started, sockErrors, sessState,
                   sessOutcome>>
    /\ KeepTorn

\* part_000:169-179, 221-225: the send callback ran
SendResult(a, err) ==
    /\ pc[a] \in {"send1", "send2"}
    /\ IF err = "ok"
       THEN /\ pc' = [pc EXCEPT ![a] = IF pc[a] = "send1" THEN "delay1" ELSE "delay2"]
            /\ Commit(Cur)
       ELSE /\ pc' = [pc EXCEPT ![a] = "failed"]
            /\ \E ok \in CloseOutcomes :
                   Commit(initializeDroneCatch(Closing(ok), err))
    /\ UNCHANGED <<mounted, platform, started, sockErrors, sessState,
                   sessOutcome>>
    /\ Note(err = "ok", "other")
    /\ sent' = sent
    /\ KeepTorn

\* part_000:222-224: the first 500 ms timer fired, 'streamon' is sent
Timer1(a) ==
    /\ pc[a] = "delay1"
    /\ SendOrCatch(a, "streamon", "send2")
    /\ Note(commandSocket # NULL, "other")
    /\ UNCHANGED <<mounted, platform, started, sockErrors, sessState,
                   sessOutcome>>
    /\ KeepTorn

\* part_000:225-231, 243-254: the second timer fired; startFFmpeg runs up to
\* await FFmpegKit.executeAsync
Timer2(a) ==
    /\ pc[a] = "delay2"
    /\ pc' = [pc EXCEPT ![a] = "launch"]
    /\ Commit(afterHandshake(Cur))
    /\ UNCHANGED <<mounted, platform, started, sockErrors, sessState,
                   sessOutcome>>
    /\ Note(TRUE, "other")
    /\ sent' = sent
    /\ KeepTorn

\* part_000:254, 297-302: the host accepted the launch (the session runs) or
\* refused it
LaunchResult(a, err) ==
    /\ pc[a] = "launch"
    /\ IF err = "ok"
       THEN /\ pc' = [pc EXCEPT ![a] = "exec"]
            /\ sessState' = [sessState EXCEPT ![a] = "running"]
            /\ Commit(Cur)
       ELSE /\ pc' = [pc EXCEPT ![a] = "failed"]
            /\ sessState' = sessState
            /\ \E ok \in CloseOutcomes :
                   Commit(startFFmpegCatch(Closing(ok), err))
    /\ UNCHANGED <<mounted, platform, started, sockErrors, sessOutcome>>
    /\ Note(err = "ok", "other")
    /\ sent' = sent
    /\ KeepTorn

\* part_000:254, 290-295: executeAsync returned the session to startFFmpeg
LaunchReturn(a) ==
    /\ pc[a] = "exec"
    /\ pc' = [pc EXCEPT ![a] = "done"]
    /\ Commit(storeSessionId(Cur, a))
    /\ UNCHANGED <<mounted, platform, started, sockErrors, sessState,
                   sessOutcome>>
    /\ Note(TRUE, "other")
    /\ sent' = sent
    /\ KeepTorn

\* part_000:255-257: the session ended and its completion callback starts; it
\* awaits getReturnCode.  A cancelled outcome needs a cancel request.
SessionComplete(s, out) ==
    /\ sessState[s] = "running"
    /\ out = "cancel" => s \in cancelReq
    /\ sessState' = [sessState EXCEPT ![s] = "cb_rc"]
    /\ sessOutcome' = [sessOutcome EXCEPT ![s] = out]
    /\ UNCHANGED <<status, error, commandSocket, ffmpegSessionId, mounted,
                   platform, started, pc, sockState, sockErrors, cancelReq,
                   cleanupPending>>
    /\ Note(FALSE, "other")
    /\ sent' = sent
    /\ KeepTorn

\* part_000:257-275, 281-284: the callback after getReturnCode
CallbackReturnCode(s) ==
    /\ sessState[s] = "cb_rc"
    /\ IF sessOutcome[s] = "failed"
       THEN /\ sessState' = [sessState EXCEPT ![s] = "cb_logs"]
            /\ Commit(Cur)
       ELSE /\ sessState' = [sessState EXCEPT ![s] = "ended"]
            /\ Commit(clearSessionId(Cur, s))
    /\ UNCHANGED <<mounted, platform, started, pc, sockErrors, sessOutcome>>
    /\ Note(FALSE, "other")
    /\ sent' = sent
    /\ KeepTorn

\* part_000:275-284: the failed branch after getLogsAsString
CallbackFailed(s) ==
    /\ sessState[s] = "cb_logs"
    /\ sessState' = [sessState EXCEPT ![s] = "ended"]
    /\ Commit(onFFmpegFailed(Cur, s))
    /\ UNCHANGED <<mounted, platform, started, pc, sockErrors, sessOutcome>>
    /\ Note(FALSE, "other")
    /\ sent' = sent
    /\ KeepTorn

\* part_000:52-71: a suspended cleanup resumes, its cancel and its close
\* ending as n says
CleanupResumeWith(n) ==
    /\ cleanupPending > 0
    /\ Commit(cleanupResume(CurWith(n)))
    /\ UNCHANGED <<mounted, platform, started, pc, sockErrors, sessState,
                   sessOutcome>>
    /\ Note(FALSE, IF trail = "teardown" THEN "torndown"
                    ELSE IF trail = "torndown" THEN "tornTwice"
                    ELSE IF ~n.cancelOk /\ ~n.closeOk /\ commandSocket # NULL
                         THEN "bothFailed" ELSE "other")
    /\ sent' = sent
    /\ KeepTorn

CleanupResume == \E n \in ResumeOutcomes : CleanupResumeWith(n)

\* what a teardown requested by the user interrupts
Teardown ==
    /\ \E ok \in CloseOutcomes : Commit(cleanup(Closing(ok)))
    /\ tornAttempts' = tornAttempts \cup {a \in Attempts : pc[a] \in Suspended}
    /\ tornSessions' = tornSessions \cup {s \in Attempts : sessState[s] = "running"}
    /\ Note(FALSE, IF ffmpegSessionId = NULL THEN "torndown" ELSE "teardown")
    /\ sent' = sent

\* part_000:327-330
HandleDisconnectPress ==
    /\ mounted
    /\ DisconnectShown
    /\ Teardown
    /\ UNCHANGED <<mounted, platform, started, pc, sockErrors, sessState,
                   sessOutcome>>

\* part_000:75-83: the effect's destructor.  Continuations and callbacks
\* still run afterwards; status and error then are the values last set.
Unmount ==
    /\ mounted
    /\ mounted' = FALSE
    /\ Teardown
    /\ UNCHANGED <<platform, started, pc, sockErrors, sessState, sessOutcome>>

\* part_000:194-200: an open socket emits 'error'
SocketError(s, m) ==
    /\ sockState[s] = "open"
    /\ sockErrors < MaxSocketErrors
    /\ sockErrors' = sockErrors + 1
    /\ \E ok \in CloseOutcomes : Commit(onSocketError(Closing(ok), m))
    /\ UNCHANGED <<mounted, platform, started, pc, sessState, sessOutcome>>
    /\ Note(FALSE, "other")
    /\ sent' = sent
    /\ KeepTorn

\* part_000:333-339, 355, 364: the mounted player calls onLoad.  The player is
\* not part of the app: it may call at any time it is mounted.  The call
\* belongs to the happy path only once FFmpeg has been launched.
OnVideoLoad ==
    /\ mounted
    /\ VideoMounted
    /\ Commit(onVideoLoad(Cur))
    /\ UNCHANGED <<mounted, platform, started, pc, sockErrors, sessState,
                   sessOutcome>>
    /\ Note(\E s \in Attempts : sessState[s] = "running", "other")
    /\ sent' = sent
    /\ KeepTorn

\* part_000:341-348, 363
OnVideoError(m) ==
    /\ mounted
    /\ VideoMounted
    /\ Commit(onVideoError(Cur, m))
    /\ UNCHANGED <<mounted, platform, started, pc, sockErrors, sessState,
                   sessOutcome>>
    /\ Note(FALSE, IF status = STREAMING THEN "videoErrorWhileStreaming" ELSE "other")
    /\ sent' = sent
    /\ KeepTorn

\* every step but the connect press
Other ==
    \/ \E a \in Attempts, r \in PermResults : PermResult(a, r)
    \/ \E a \in Attempts, st \in NetStates : NetResult(a, st)
    \/ \E a \in Attempts, e \in {"ok"} \cup ErrText : BindResult(a, e)
    \/ \E a \in Attempts, e \in {"ok"} \cup ErrText : SendResult(a, e)
    \/ \E a \in Attempts : Timer1(a)
    \/ \E a \in Attempts : Timer2(a)
    \/ \E a \in Attempts, e \in {"ok"} \cup ErrText : LaunchResult(a, e)
    \/ \E a \in Attempts : LaunchReturn(a)
    \/ \E s \in Attempts, out \in Outcomes : SessionComplete(s, out)
    \/ \E s \in Attempts : CallbackReturnCode(s)
    \/ \E s \in Attempts : CallbackFailed(s)
    \/ CleanupResume
    \/ HandleDisconnectPress
    \/ Unmount
    \/ \E s \in Attempts, m \in ErrText : SocketError(s, m)
    \/ OnVideoLoad
    \/ \E m \in ErrText : OnVideoError(m)

Next == HandleConnectPress(MaxAttempts) \/ Other

\* every interleaving of MaxAttempts connect attempts with the environment
Spec == Init /\ [][Next]_vars

NextRetry == HandleConnectPress(MaxAttempts + 1) \/ Other

\* the same with one more connect attempt: a reconnect after a disconnect or
\* a failure
SpecRetry == Init /\ [][NextRetry]_vars

\* part_000:89, 122, 208, 169, 222, 225, 254: the native call attempt a is
\* suspended at returns or fails
ExternalReturn(a) ==
    \/ \E r \in PermResults : PermResult(a, r)
    \/ \E st \in NetStates : NetResult(a, st)
    \/ \E e \in {"ok"} \cup ErrText : BindResult(a, e)
    \/ \E e \in {"ok"} \cup ErrText : SendResult(a, e)
    \/ Timer1(a)
    \/ Timer2(a)
    \/ \E e \in {"ok"} \cup ErrText : LaunchResult(a, e)

\* Spec where no native call an attempt awaits stays pending forever: the
\* host settles every promise and runs every callback and timer
SpecFair == Spec /\ \A a \in Attempts : WF_vars(ExternalReturn(a))


\* ---- vocabulary of the properties ----

OpenSockets == {s \in Attempts : sockState[s] = "open"}
ActiveSessions == {s \in Attempts : sessState[s] = "running"}

\* nothing is suspended: no attempt, no cleanup, no completion callback
Quiescent ==
    /\ \A a \in Attempts : pc[a] \notin Suspended
    /\ cleanupPending = 0
    /\ \A s \in Attempts : sessState[s] \notin {"cb_rc", "cb_logs"}

\* C1: at most one command socket created by initializeDrone is open
\* (created and not yet closed) at any time.
C1_AtMostOneOpenSocket == Cardinality(OpenSockets) <= 1

\* C2: at most one FFmpeg session is active (started and not yet terminal)
\* at any time.
C2_AtMostOneActiveSession == Cardinality(ActiveSessions) <= 1

\* C3: in no quiescent state with status Disconnected or Error is a command
\* socket open.
C3_NoSocketWhenDown ==
    (Quiescent /\ status \in {DISCONNECTED, ERROR}) => OpenSockets = {}

\* C4: an attempt that was suspended when the user tore down does not resume:
\* no later step of it changes status, stores a socket or starts a session
\* (stated for a component still mounted, where status is the one displayed).
C4_TornAttemptStops ==
    [][\A a \in Attempts :
          (mounted /\ a \in tornAttempts /\ pc'[a] # pc[a]) =>
              /\ status' = status
              /\ commandSocket' = commandSocket
              /\ sockState' = sockState
              /\ sessState' = sessState]_vars

\* C5: when the completion callback reports Failed while status is Streaming,
\* status becomes Error, the command socket is closed and ffmpegSessionId is
\* cleared.
C5_FailedWhileStreaming ==
    [][\A s \in Attempts :
          (status = STREAMING /\ sessState[s] = "cb_logs" /\ sessState'[s] = "ended") =>
              /\ status' = ERROR
              /\ OpenSockets' = {}
              /\ ffmpegSessionId' = NULL]_vars

\* C6: a failure of bind, of either send or of the FFmpeg launch ends the
\* attempt with status Error carrying a message, the socket closed and no
\* session handle left.
C6_FailureEndsInError ==
    [][\A a \in Attempts :
          (pc[a] \in {"bind", "send1", "send2", "launch"} /\ pc'[a] = "failed") =>
              /\ status' = ERROR
              /\ error' # NoError
              /\ OpenSockets' = {}
              /\ ffmpegSessionId' = NULL]_vars

\* C7: every step that takes status into Error leaves no open command socket
\* and no active FFmpeg session.
C7_ErrorIsClean ==
    [][(status # ERROR /\ status' = ERROR) =>
          (OpenSockets' = {} /\ ActiveSessions' = {})]_vars

\* C8: the completion callback of a session that was running when the user
\* tore down changes neither status nor the error message nor a handle that
\* is not its own (stated for a callback that finds the component mounted,
\* where the state it sets is the one displayed).
C8_TornCallbackIsInert ==
    [][\A s \in Attempts :
          (mounted /\ s \in tornSessions /\ sessState[s] \in {"cb_rc", "cb_logs"}
             /\ sessState'[s] # sessState[s]) =>
              /\ status' = status
              /\ error' = error
              /\ commandSocket' = commandSocket
              /\ (ffmpegSessionId' = ffmpegSessionId \/ ffmpegSessionId = s)]_vars

\* C9: only the player's ready signal sets status to Streaming: every step
\* that takes status into Streaming is an OnVideoLoad step.
C9_OnlyVideoLoadStreams ==
    [][(status # STREAMING /\ status' = STREAMING) => OnVideoLoad]_vars

\* C9 witness: the connect flow ran to the end, the session was launched and
\* the player's ready signal has set Streaming.
C9_Witness ==
    /\ status = STREAMING
    /\ \E a \in Attempts : pc[a] = "done" /\ sessState[a] = "running"

\* C10: a ready signal received while status is Connecting or Disconnected
\* changes neither status, error message, socket handle nor session handle.
C10_EarlyVideoLoadIsNoOp ==
    [][(OnVideoLoad /\ status \in {CONNECTING, DISCONNECTED}) =>
          UNCHANGED <<status, error, commandSocket, ffmpegSessionId>>]_vars

\* C11: a player error received while status is Streaming sets status to
\* Connected (never Error) with an error message attached, and leaves the
\* command socket open and the FFmpeg session handle and process untouched.
C11_VideoErrorWhileStreaming ==
    [][(status = STREAMING /\ \E m \in ErrText : OnVideoError(m)) =>
          /\ status' = CONNECTED
          /\ error' # NoError
          /\ UNCHANGED <<commandSocket, sockState, ffmpegSessionId, sessState,
                         sessOutcome, cancelReq, cleanupPending>>]_vars

\* C11 witness: the step just taken was a player error received in Streaming,
\* with the socket open and the session running, and they still are.
C11_Witness ==
    /\ trail = "videoErrorWhileStreaming"
    /\ status = CONNECTED
    /\ commandSocket # NULL /\ sockState[commandSocket] = "open"
    /\ ffmpegSessionId # NULL /\ sessState[ffmpegSessionId] = "running"

\* C12: on the happy path (permission granted, preflight passes, bind
\* succeeds, both commands are sent, FFmpeg launches, the player's ready
\* signal fires, and nothing else happens) the distinct status values are
\* exactly Disconnected, Connecting, Connected, Streaming in this order:
\* every change of status on the path is one of these three steps.
C12_HappyPathStatusSequence ==
    [][(trail' = "happy" /\ status' # status) =>
          <<status, status'>> \in {<<DISCONNECTED, CONNECTING>>,
                                   <<CONNECTING, CONNECTED>>,
                                   <<CONNECTED, STREAMING>>}]_vars

\* C12 witness: the happy path ran to its end, the ready signal included.
C12_Witness ==
    /\ trail = "happy"
    /\ status = STREAMING
    /\ \E a \in Attempts :
          /\ pc[a] = "done"
          /\ sent[a] = <<"command", "streamon">>
          /\ sessState[a] = "running"

\* C13: a disconnect request or an unmount, in any status, sets status
\* Disconnected and the error message empty at once; and when its cleanup has
\* run to its end with no other step in between, status is Disconnected, the
\* message is empty, both handles are null, the socket the handle named is
\* closed, and the FFmpeg session is cancelled: FFmpegKit.cancel was called
\* on the session the handle named and on every session still running.
C13_TeardownCompletes ==
    [][/\ (HandleDisconnectPress \/ Unmount) =>
             /\ status' = DISCONNECTED
             /\ error' = NoError
             /\ ffmpegSessionId # NULL => ffmpegSessionId \in cancelReq'
       /\ trail' = "torndown" =>
             /\ HandleDisconnectPress \/ Unmount \/ (trail = "teardown" /\ CleanupResume)
             /\ status' = DISCONNECTED
             /\ error' = NoError
             /\ ffmpegSessionId # NULL => ffmpegSessionId \in cancelReq'
             /\ \A s \in Attempts : sessState'[s] = "running" => s \in cancelReq'
             /\ ffmpegSessionId' = NULL
             /\ commandSocket' = NULL
             /\ commandSocket # NULL => sockState'[commandSocket] = "closed"]_vars

\* C14: the message of the last failure is preserved together with the
\* status: every step leaves a non-empty message whenever it leaves status
\* Error, and the step in which a failure is handled (a failing attempt, a
\* socket error) does not end with the message erased by the teardown the
\* failure triggers.
C14_FailureMessagePreserved ==
    [][/\ status' = ERROR => error' # NoError
       /\ (\E a \in Attempts : pc[a] \in Suspended /\ pc'[a] = "failed") =>
             error' # NoError
       /\ sockErrors' # sockErrors => error' # NoError]_vars

\* the handshake of attempt a in a step: the commands it has handed to the
\* socket are 'command' then 'streamon'; 'streamon' is handed over by the
\* step that ends the first settling delay, which starts only when the send
\* of 'command' has completed
HandshakeOrder(a) ==
    /\ sent'[a] \in {<<>>, <<"command">>, <<"command", "streamon">>}
    /\ (sent'[a] # sent[a] /\ Len(sent'[a]) = 2) => pc[a] = "delay1"
    /\ (pc'[a] = "delay1" /\ pc[a] # "delay1") => (pc[a] = "send1" /\ Len(sent[a]) = 1)
    /\ (pc'[a] = "delay2" /\ pc[a] # "delay2") => (pc[a] = "send2" /\ Len(sent[a]) = 2)

\* C15: within one connect attempt exactly two commands are sent, 'command'
\* then 'streamon', the second only after the first send has completed and
\* the settling delay has elapsed (so never two in flight), and while the
\* attempt is before the end of its second delay status becomes Connected
\* only by the step that ends that delay, both commands sent.
C15_HandshakeThenConnected ==
    [][\A a \in Attempts :
          /\ HandshakeOrder(a)
          /\ (a = started /\ status # CONNECTED /\ status' = CONNECTED
                 /\ pc[a] \in {"perm", "net", "bind", "send1", "delay1", "send2", "delay2"}) =>
                (pc[a] = "delay2" /\ pc'[a] = "launch"
                   /\ sent[a] = <<"command", "streamon">>)]_vars

\* the step in which attempt a's network query settles
NetStep(a) == pc[a] = "net" /\ pc'[a] # "net"

\* C16 as stated: with the link down, a connect request ends with status
\* Error and the error message "No network connection".
C16_LinkDownMessageAsStated ==
    [][\A a \in Attempts : NetStep(a) => \A st \in NetStates :
          (~st.throws /\ ~st.isConnected /\ NetResult(a, st)) =>
              (status' = ERROR /\ error' = <<"No network connection">>)]_vars

\* C16 amended: with the link down, a connect request that reaches the
\* network preflight ends with status Error and the error message
\* "No network connection." (with its full stop), the attempt over and no
\* socket created.
C16_LinkDownMessage ==
    [][\A a \in Attempts : NetStep(a) => \A st \in NetStates :
          (~st.throws /\ ~st.isConnected /\ NetResult(a, st)) =>
              /\ status' = ERROR
              /\ error' = <<"No network connection.">>
              /\ pc'[a] = "failed"
              /\ sockState'[a] = "none"]_vars

\* C16 witness: an attempt ended at the preflight with the link-down message.
C16_Witness ==
    /\ status = ERROR
    /\ error = MsgNoConnection
    /\ \E a \in Attempts : pc[a] = "failed" /\ sockState[a] = "none" /\ sent[a] = <<>>

\* sub occurs in msg as a run of consecutive pieces
Contains(msg, sub) ==
    \E i \in 1..(Len(msg) - Len(sub) + 1) : SubSeq(msg, i, i + Len(sub) - 1) = sub

\* the link is up on WiFi with a readable identity lacking the prefix
WrongIdentity(st) ==
    /\ ~st.throws /\ st.isConnected /\ st.type = "wifi"
    /\ st.ssid # NoSsid /\ ~StartsWith(st.ssid, TelloPrefix)

\* C17 as stated: with the link up on WiFi but a readable identity that
\* does not start with the prefix, a connect request ends with status Error
\* and an error message that contains the detected network name.
C17_WrongNetworkNamedAsStated ==
    [][\A a \in Attempts : NetStep(a) => \A st \in NetStates :
          (WrongIdentity(st) /\ NetResult(a, st)) =>
              (status' = ERROR /\ Contains(error', st.ssid))]_vars

\* C17 amended: on Android such a connect request ends with status Error
\* and a message that contains the detected network name; on any other
\* platform the identity is not examined and the attempt goes on to open
\* the socket, status Connecting.
C17_WrongNetworkNamed ==
    [][\A a \in Attempts : NetStep(a) => \A st \in NetStates :
          (WrongIdentity(st) /\ NetResult(a, st)) =>
              IF platform = "android"
              THEN /\ status' = ERROR
                   /\ Contains(error', st.ssid)
                   /\ pc'[a] = "failed"
              ELSE /\ status' = CONNECTING
                   /\ pc'[a] = "bind"]_vars

\* C17 witness: on Android an attempt ended at the preflight with the
\* message that names a network lacking the prefix.
C17_Witness ==
    /\ platform = "android"
    /\ status = ERROR
    /\ \E a \in Attempts : pc[a] = "failed" /\ sockState[a] = "none"
    /\ \E ssid \in Ssids :
          /\ ssid # NoSsid /\ ~StartsWith(ssid, TelloPrefix)
          /\ error = MsgWrongNetwork(ssid)
          /\ Contains(error, ssid)

\* what a teardown leaves behind
TeardownResult == <<status, error, commandSocket, ffmpegSessionId, sockState>>

\* C18: closing the command channel is idempotent.  close() is called at
\* most once on each socket, and only on the socket the handle names, which
\* the same step nulls; a step that starts with no socket in the handle closes
\* nothing (teardown with no socket ever opened); a teardown right after a
\* completed teardown changes nothing (twice in a row); and when two
\* cleanups were suspended side by side, the second to finish changes nothing
\* the first has left (two teardowns concurrently).
C18_CloseIsIdempotent ==
    [][/\ \A s \in Attempts :
             /\ sockState'[s] # "reclosed"
             /\ (sockState'[s] = "closed" /\ sockState[s] # "closed") =>
                    (sockState[s] = "open" /\ commandSocket = s /\ commandSocket' = NULL)
       /\ ((HandleDisconnectPress \/ Unmount) /\ commandSocket = NULL) =>
             (sockState' = sockState /\ commandSocket' = NULL)
       /\ ((HandleDisconnectPress \/ Unmount) /\ trail = "torndown") =>
             UNCHANGED TeardownResult
       /\ trail' = "tornTwice" => UNCHANGED TeardownResult]_vars

\* C18 witness: a disconnect and an unmount had their cleanups suspended side
\* by side; both have run to their end, and the socket was closed once.
C18_Witness ==
    /\ trail = "tornTwice"
    /\ ~mounted
    /\ cleanupPending = 0
    /\ commandSocket = NULL
    /\ \E s \in Attempts : sockState[s] = "closed"

\* the step in which attempt a's permission request settles
PermStep(a) == pc[a] = "perm" /\ pc'[a] # "perm"

\* C19: in each connect attempt the permission gate runs first (a request
\* on Android at every attempt, nothing cached; passed at once elsewhere)
\* and the network preflight second, after the gate has passed; the command
\* socket is created only by the step in which the preflight passes; and
\* when either fails, the attempt is over with status Error and neither a
\* socket nor an FFmpeg session of that attempt.
C19_GatesBeforeSocket ==
    [][\A a \in Attempts :
          /\ (pc[a] = "idle" /\ pc'[a] # "idle") =>
                pc'[a] = IF platform = "android" THEN "perm" ELSE "net"
          /\ (pc'[a] = "perm" /\ pc[a] # "perm") => pc[a] = "idle"
          /\ (pc'[a] = "net" /\ pc[a] # "net") => pc[a] \in {"idle", "perm"}
          /\ (sockState'[a] # "none" /\ sockState[a] = "none") =>
                (pc[a] = "net" /\ pc'[a] = "bind")
          /\ (sessState'[a] # "none" /\ sessState[a] = "none") => sockState[a] # "none"
          /\ PermStep(a) => \A r \in PermResults :
                (r # "granted" /\ PermResult(a, r)) =>
                    /\ pc'[a] = "failed"
                    /\ status' = ERROR
                    /\ sockState'[a] = "none" /\ sessState'[a] = "none"
          /\ NetStep(a) => \A st \in NetStates :
                (~checkNetwork(platform, st)[1] /\ NetResult(a, st)) =>
                    /\ pc'[a] = "failed"
                    /\ status' = ERROR
                    /\ sockState'[a] = "none" /\ sessState'[a] = "none"
          /\ pc[a] = "failed" => pc'[a] = "failed"]_vars

\* C19 witness: on Android a first attempt passed both gates and created its
\* socket, and the next attempt, asked again, was refused at the permission
\* gate: status Error, no socket and no session of its own.
C19_Witness ==
    /\ platform = "android"
    /\ status = ERROR
    /\ error = MsgPermissionDenied
    /\ \E a \in Attempts :
          /\ sockState[a] # "none"
          /\ a + 1 \in Attempts
          /\ pc[a + 1] = "failed"
          /\ sockState[a + 1] = "none" /\ sessState[a + 1] = "none"

\* the outcome of attempt a's preflight as its step shows it: passed (the
\* attempt goes on to bind) or the kind of failure the message left names
PreflightOutcome(a) ==
    IF pc'[a] = "bind" THEN "Pass"
    ELSE IF pc'[a] # "failed" \/ status' # ERROR THEN "none"
    ELSE IF error' = MsgNoConnection THEN "NoConnection"
    ELSE IF error' = MsgNotWifi THEN "WrongLinkType"
    ELSE IF \E ssid \in Ssids : error' = MsgWrongNetwork(ssid) THEN "WrongNetwork"
    ELSE "other"

\* the precedence of the claim, wrong is the condition of WrongNetwork
Precedence(st, wrong) ==
    IF ~st.isConnected THEN "NoConnection"
    ELSE IF st.type # "wifi" THEN "WrongLinkType"
    ELSE IF wrong THEN "WrongNetwork"
    ELSE "Pass"

\* C20 as stated: the preflight fails as NoConnection when the link is
\* down; otherwise as WrongLinkType when the link type is not wifi; otherwise
\* as WrongNetwork exactly when the identity is readable and does not start
\* with 'TELLO-'; and passes in every other case.
C20_PreflightPrecedenceAsStated ==
    [][\A a \in Attempts : NetStep(a) => \A st \in NetStates :
          (~st.throws /\ NetResult(a, st)) =>
              PreflightOutcome(a) =
                  Precedence(st, st.ssid # NoSsid /\ ~StartsWith(st.ssid, TelloPrefix))]_vars

\* C20 amended: as stated, except that the preflight fails as WrongNetwork
\* exactly when the platform is Android and the identity is readable and
\* does not start with 'TELLO-'; on other platforms, and when the identity
\* cannot be read, a wifi link passes.
C20_PreflightPrecedence ==
    [][\A a \in Attempts : NetStep(a) => \A st \in NetStates :
          (~st.throws /\ NetResult(a, st)) =>
              PreflightOutcome(a) =
                  Precedence(st, /\ platform = "android"
                                 /\ st.ssid # NoSsid
                                 /\ ~StartsWith(st.ssid, TelloPrefix))]_vars

\* C20 witness: a preflight has failed as WrongLinkType (the link up, not
\* wifi), the second rank of the precedence.
C20_Witness ==
    /\ status = ERROR
    /\ error = MsgNotWifi
    /\ \E a \in Attempts : pc[a] = "failed" /\ sockState[a] = "none"

\* C21: status is Connected or Streaming only if the current connect attempt
\* has completed its handshake (socket bound, both commands sent, both delays
\* over): every step leaves it so, and no player callback arriving while
\* status is Connecting, Disconnected or Error moves status to Connected or
\* Streaming.
C21_ConnectedOnlyAfterHandshake ==
    [][/\ status' \in {CONNECTED, STREAMING} =>
             /\ started' > 0
             /\ sent'[started'] = <<"command", "streamon">>
             /\ pc'[started'] \in {"launch", "exec", "done", "failed"}
       /\ ((OnVideoLoad \/ \E m \in ErrText : OnVideoError(m))
              /\ status \in {CONNECTING, DISCONNECTED, ERROR}) =>
             status' \notin {CONNECTED, STREAMING}]_vars

\* C22: in every state where status is Streaming the command socket is open
\* and ffmpegSessionId holds a session that has not delivered a terminal
\* outcome (allowing for the two moments the code cannot avoid: startFFmpeg
\* still awaiting the launch of the session it is about to store, and the
\* completion callback of the held session still running).
C22_StreamingHasLivePipeline ==
    status = STREAMING =>
        /\ commandSocket # NULL
        /\ sockState[commandSocket] = "open"
        /\ \E s \in Attempts :
              /\ sessState[s] \in {"running", "cb_rc", "cb_logs"}
              /\ \/ ffmpegSessionId = s
                 \/ ffmpegSessionId = NULL /\ pc[s] = "exec"

\* C23: ffmpegSessionId, whenever non-null, names a session that was started
\* and whose completion callback has not finished: no step leaves it naming
\* a session never started or already handled (also when the callback ran
\* before the handle was assigned), and the callback of session s changes
\* the handle only when the handle names s.
C23_HandleNamesLiveSession ==
    [][/\ ffmpegSessionId' # NULL =>
             sessState'[ffmpegSessionId'] \in {"running", "cb_rc", "cb_logs"}
       /\ \A s \in Attempts :
             (sessState[s] \in {"cb_rc", "cb_logs"} /\ sessState'[s] # sessState[s]
                /\ ffmpegSessionId' # ffmpegSessionId) =>
                   (ffmpegSessionId = s /\ ffmpegSessionId' = NULL)]_vars

\* the connect attempts in progress: begun and neither finished nor failed
InProgress == {a \in Attempts : pc[a] \in Suspended}

\* C24: a connect request received while status is Connecting, Connected or
\* Streaming is ignored (no step begins an attempt from such a status, so
\* no check runs and nothing is created), so that at most one connect attempt
\* is in progress at any time.
C24_OneAttemptInProgress ==
    [][/\ started' # started => ~ConnectBlocked
       /\ Cardinality(InProgress') <= 1]_vars

\* C25: teardown is best-effort per resource.  A cleanup that resumes after
\* FFmpegKit.cancel nulls the session handle, closes the socket the ref names
\* and nulls the ref, whether the cancel resolved or rejected and whether
\* close() returned or threw; a teardown that finds no session handle (the
\* session is terminal and its callback cleared it) closes the socket and
\* nulls the ref in the same step; and no step leaves the ref on a socket
\* close() was called on.
C25_TeardownBestEffort ==
    [][/\ cleanupPending' < cleanupPending =>
             /\ CleanupResume
             /\ ffmpegSessionId' = NULL
             /\ commandSocket' = NULL
             /\ commandSocket # NULL => sockState'[commandSocket] # "open"
       /\ (trail' = "torndown" /\ ffmpegSessionId = NULL) =>
             /\ HandleDisconnectPress \/ Unmount
             /\ ffmpegSessionId' = NULL
             /\ commandSocket' = NULL
             /\ commandSocket # NULL => sockState'[commandSocket] # "open"
       /\ commandSocket' # NULL => sockState'[commandSocket'] = "open"]_vars

\* a cleanup resumed with the cancel rejected and close() throwing, and left
\* both handles null and the socket closed
C25_Witness ==
    /\ trail = "bothFailed"
    /\ cancelReq # {}
    /\ ffmpegSessionId = NULL
    /\ commandSocket = NULL
    /\ \E s \in Attempts : sockState[s] = "closed"

\* C26: provided every external call (permission prompt, network query, bind,
\* send, timer, FFmpeg launch) eventually returns or fails, a status of
\* Connecting is always followed by Connected, Error or Disconnected.
C26_LeavesConnecting ==
    (status = CONNECTING) ~> (status \in {CONNECTED, ERROR, DISCONNECTED})

\* an attempt that began, sent both commands and failed at the second one:
\* the status went from Connecting through Error to Disconnected
C26_Witness ==
    \E a \in Attempts :
        /\ pc[a] = "failed"
        /\ sent[a] = <<"command", "streamon">>
        /\ status = DISCONNECTED
        /\ trail = "other"

====
